---- MODULE Spec2Model ----
(***************************************************************************)
(* Model of the backup_n_restore package (backup_n_restore/__init__.py) and *)
(* of its command-line entry point (db_backup.py).                          *)
(*                                                                          *)
(* Text (collection names, mode tokens, object-store keys, serialized      *)
(* checkpoints) is a sequence of one-character strings, so that strip,     *)
(* split, lower, zero padding and f-string concatenation are computed as   *)
(* the code computes them.  A document is a function from field names to   *)
(* integers.  A chunk body is a sequence of lexical tokens.                 *)
(***************************************************************************)
EXTENDS Integers, Sequences, FiniteSets, TLC

\* ------------------------------------------------------------------ bounds
MaxRuns == 2
MaxDocs == 2

\* ------------------------------------------------------------ text helpers
\* Python's None object (distinct from every text, '' and 'None' included).
None == <<"None-object">>

UpperChars == <<"A","B","C","D","E","F","G","H","I","J","K","L","M",
                "N","O","P","Q","R","S","T","U","V","W","X","Y","Z">>
LowerChars == <<"a","b","c","d","e","f","g","h","i","j","k","l","m",
                "n","o","p","q","r","s","t","u","v","w","x","y","z">>
DigitChars == <<"0","1","2","3","4","5","6","7","8","9">>

\* str.lower()
LowerChar(c) ==
    IF \E i \in 1..26 : UpperChars[i] = c
    THEN LowerChars[CHOOSE i \in 1..26 : UpperChars[i] = c]
    ELSE c
Lower(s) == [i \in 1..Len(s) |-> LowerChar(s[i])]

\* str.strip()
RECURSIVE LStrip(_)
LStrip(s) == IF s # <<>> /\ Head(s) = " " THEN LStrip(Tail(s)) ELSE s
RECURSIVE RStrip(_)
RStrip(s) == IF s # <<>> /\ s[Len(s)] = " " THEN RStrip(SubSeq(s, 1, Len(s) - 1)) ELSE s
Strip(s) == RStrip(LStrip(s))

\* str.split('-'): always at least one part
RECURSIVE SplitAcc(_, _, _)
SplitAcc(s, cur, acc) ==
    IF s = <<>> THEN Append(acc, cur)
    ELSE IF Head(s) = "-" THEN SplitAcc(Tail(s), <<>>, Append(acc, cur))
    ELSE SplitAcc(Tail(s), Append(cur, Head(s)), acc)
Split(s) == SplitAcc(s, <<>>, <<>>)

\* decimal digits of a natural number
RECURSIVE Digits(_)
Digits(n) == IF n < 10 THEN <<DigitChars[n + 1]>>
             ELSE Append(Digits(n \div 10), DigitChars[(n % 10) + 1])

\* f'{n:06d}': left-padded with zeros to a width of at least six
RECURSIVE ZeroPad(_, _)
ZeroPad(s, w) == IF Len(s) >= w THEN s ELSE ZeroPad(<<"0">> \o s, w)
\* Pad6 with the width of the format off by one
Pad6_Width5(n) == ZeroPad(Digits(n), 5)
Pad6(n) == ZeroPad(Digits(n), 6)

\* ------------------------------------------------------- program constants
MONGO_DB_ID_FIELD == <<"_","i","d">>
FULL_BACKUP == <<"f","u","l","l">>
INCREMENTAL_BACKUP == <<"i","n","c","r","e","m","e","n","t","a","l">>
LAST_ID_FILE_NAME == <<"l","a","s","t","_","k","e","y",".","t","x","t">>
\* sys.getsizeof of an ASCII str is a fixed header plus one byte per character
StrHeaderSize == 49

\* ------------------------------------------------ serialization (bson dumps)
NullText == <<"n","u","l","l">>

\* dumps(doc.get(key_field)): the integer in decimal, or 'null' when absent
DumpsKey(doc, key_field) ==
    IF key_field \in DOMAIN doc THEN Digits(doc[key_field]) ELSE NullText

\* value of a decimal text
RECURSIVE DigitsValue(_, _)
DigitsValue(s, acc) ==
    IF s = <<>> THEN acc
    ELSE DigitsValue(Tail(s),
                     10 * acc + ((CHOOSE i \in 1..10 : DigitChars[i] = Head(s)) - 1))
IsDecimal(s) == s # <<>> /\ \A i \in 1..Len(s) : \E j \in 1..10 : DigitChars[j] = s[i]

\* loads(text): [ok |-> FALSE] when the text does not parse
Loads(s) ==
    IF s = NullText THEN [ok |-> TRUE, null |-> TRUE, val |-> 0]
    ELSE IF IsDecimal(s) THEN [ok |-> TRUE, null |-> FALSE, val |-> DigitsValue(s, 0)]
    ELSE [ok |-> FALSE, null |-> FALSE, val |-> 0]

\* len(dumps(doc)): '{' name ': ' value (', ' name ': ' value)* '}'
RECURSIVE FieldsLen(_, _)
FieldsLen(doc, fs) ==
    IF fs = {} THEN 0
    ELSE LET f == CHOOSE g \in fs : TRUE
         IN  Len(f) + 4 + Len(Digits(doc[f])) + FieldsLen(doc, fs \ {f})
DumpsLen(doc) == 2 + FieldsLen(doc, DOMAIN doc) + 2 * (Cardinality(DOMAIN doc) - 1)

\* lexical tokens of a chunk body
OpenTok == [s |-> "["]
SepTok == [s |-> ", "]
CloseTok == [s |-> "]"]
DocTok(doc) == [s |-> "doc", doc |-> doc]
TokLen(t) == IF t.s = "doc" THEN DumpsLen(t.doc) ELSE IF t.s = ", " THEN 2 ELSE 1

RECURSIVE DataLen(_)
DataLen(data) == IF data = <<>> THEN 0 ELSE TokLen(Head(data)) + DataLen(Tail(data))

\* sys.getsizeof(data)
GetSizeOf(data) == StrHeaderSize + DataLen(data)

\* the documents of a chunk body, in order
RECURSIVE DocsOf(_)
DocsOf(data) ==
    IF data = <<>> THEN <<>>
    ELSE IF Head(data).s = "doc" THEN <<Head(data).doc>> \o DocsOf(Tail(data))
    ELSE DocsOf(Tail(data))

\* ------------------------------------------------------------ the data
USERS == <<"u","s","e","r","s">>
SESSIONS == <<"s","e","s","s","i","o","n","s">>
LOGS == <<"l","o","g","s">>
TS == <<"t","s">>

\* documents: _id is always present and unique, ts may be absent
DocA == (MONGO_DB_ID_FIELD :> 1) @@ (TS :> 2)
DocB == (MONGO_DB_ID_FIELD :> 2) @@ (TS :> 1)
DocC == (MONGO_DB_ID_FIELD :> 3)
DocPool == {DocA, DocB, DocC}

\* sequences of distinct documents of length at most n: a collection in the
\* order in which a cursor returns it (the natural order, which need not be
\* the order of any field)
Range(q) == {q[i] : i \in 1..Len(q)}

RECURSIVE NoRepSeqs(_, _)
NoRepSeqs(S, n) ==
    IF n = 0 THEN {<<>>}
    ELSE LET shorter == NoRepSeqs(S, n - 1)
         IN  shorter \cup
             UNION {{Append(q, d) : d \in S \ Range(q)} :
                    q \in {r \in shorter : Len(r) = n - 1}}

\* the databases the program is run against
DBs ==
    {(USERS :> u) @@ (SESSIONS :> <<DocB>>) @@ (LOGS :> <<>>) :
        u \in NoRepSeqs(DocPool, MaxDocs)}

\* the values of the DB_BACKUP_CONF variable: a JSON object, whose pairs
\* json.loads keeps in order
Confs ==
    { <<>>,
      << <<USERS, <<" ","F"," ">> >> >>,
      << <<USERS, <<"i">> >>, <<LOGS, <<"0">> >>, <<SESSIONS, FULL_BACKUP>> >>,
      << <<SESSIONS, <<>> >>, <<USERS, <<"I"," ","-"," ","t","s">> >> >>,
      << <<LOGS, <<"f","u","l","l","y">> >>, <<USERS, INCREMENTAL_BACKUP \o <<"-">> \o TS>> >> }

\* the values of DB_BACKUP_BULK_SIZE_LIMIT the model is run with (bytes)
Limits == {64}

\* a limit below the size of the bare '[' (50 bytes)
TinyLimits == {40}

\* datetime.now().strftime(...) of the n-th run: distinct for distinct runs
BackupId(n) == <<"r","u","n">> \o Digits(n)

\* ------------------------------------------------------------- the state
VARIABLES
    db,        \* APP_DB: collection name -> documents in cursor order
    conf,      \* the configuration: sequence of <<collection name, mode token>>
    limit,     \* DB_BACKUP_BULK_SIZE_LIMIT
    s3,        \* the bucket: key -> body
    puts,      \* history: the put_object calls, in order
    run,       \* number of the current run of db_backup.py
    pc,        \* position of the run
    status,    \* db_backup.py's status variable
    missing,   \* missing_collections reported by the coverage check, or None
    exc,       \* class of the exception that escaped backup(), or "none"
    ci,        \* position of backup()'s loop in conf.items()
    bc,        \* locals of the running backup_collection and of its generator
    returns,   \* history: the backup_collection calls that returned
    restores,  \* history: the restore_collection calls, in order
    pc2,       \* position of a second db_backup.py process
    bc2        \* locals of the second process's backup_collection

vars == <<db, conf, limit, s3, puts, run, pc, status, missing, exc, ci, bc, returns,
          restores, pc2, bc2>>

NoFrame == [active |-> FALSE]

Init ==
    /\ db \in DBs
    /\ conf \in Confs
    /\ limit \in Limits
    /\ s3 = <<>>
    /\ puts = <<>>
    /\ run = 1
    /\ pc = "main"
    /\ status = "OK"
    /\ missing = None
    /\ exc = "none"
    /\ ci = 0
    /\ bc = NoFrame
    /\ returns = <<>>
    /\ restores = <<>>
    /\ pc2 = "idle"
    /\ bc2 = NoFrame

\* ------------------------------------------------------ the two gateways
\* put_s3_data: put_object overwrites whatever the key held
put_s3_data(bucket, file_key, data) == (file_key :> data) @@ bucket

HasKey(bucket, file_key) == file_key \in DOMAIN bucket

\* one entry of the history of put_object calls
PutRec(what, file_key, data, frame) ==
    [what |-> what, key |-> file_key, body |-> data, run |-> run,
     name |-> frame.name, seq |-> frame.file_count,
     backup_type |-> frame.backup_type, key_field |-> frame.key_field,
     ci |-> ci, last_key |-> frame.last_key, count |-> frame.count,
     final |-> frame.finished]

\* APP_DB.list_collection_names(), in some order
RECURSIVE SetToSeq(_)
SetToSeq(S) == IF S = {} THEN <<>>
               ELSE LET x == CHOOSE y \in S : TRUE IN <<x>> \o SetToSeq(S \ {x})
ListCollectionNames == SetToSeq(DOMAIN db)

\* a query: {} or {key_field: {'$gt': value}}
EmptyQuery == [gt |-> FALSE, null |-> FALSE, val |-> 0]
GtQuery(loaded) == [gt |-> TRUE, null |-> loaded.null, val |-> loaded.val]

\* whether a document satisfies the query; nothing is greater than null, and
\* a document without the field is not greater than anything
Matches(doc, query, key_field) ==
    \/ ~query.gt
    \/ /\ ~query.null
       /\ key_field \in DOMAIN doc
       /\ doc[key_field] > query.val

\* APP_DB[collection_name].find(query): no sort is asked for, so the
\* documents come in the collection's own order
Find(collection_name, query, key_field) ==
    LET docs == IF collection_name \in DOMAIN db THEN db[collection_name] ELSE <<>>
    IN  SelectSeq(docs, LAMBDA d : Matches(d, query, key_field))

\* -------------------------------------------------- check_missing_collections
ExistingInConf(c) == {c[i][1] : i \in 1..Len(c)}

\* MissingCollections with the membership test inverted
MissingCollections_Inverted(c) ==
    SelectSeq(ListCollectionNames, LAMBDA x : x \in ExistingInConf(c))

MissingCollections(c) ==
    SelectSeq(ListCollectionNames, LAMBDA x : x \notin ExistingInConf(c))

CheckRaises(c) == Len(MissingCollections(c)) > 0

\* ------------------------------------------------------ the checkpoint file
\* CheckpointKey without the prefix
CheckpointKey_NoPrefix(folder, prefix) == folder \o <<"/">> \o LAST_ID_FILE_NAME
CheckpointKey(folder, prefix) == folder \o <<"/">> \o prefix \o LAST_ID_FILE_NAME

\* --------------------------------------------------------- get_s3_file_key
get_s3_file_key(file, folder) == folder \o <<"/">> \o file \o <<".","b","a","k">>

\* ------------------------------------------------------ get_collection_data
\* One resumption of the generator: from the cursor position pos, with the
\* running count, up to the next yield.
\* GenLoop testing the size before the document is appended, so that a
\* chunk is split off one document late
RECURSIVE GenLoop_SplitsLate(_, _, _, _, _, _, _)
GenLoop_SplitsLate(matched, pos, data, is_first, last_key, count, key_field) ==
    IF pos > Len(matched)
    THEN [data |-> Append(data, CloseTok), last_key |-> last_key, count |-> count,
          pos |-> pos, finished |-> TRUE]
    ELSE LET doc == matched[pos]
             data1 == IF is_first THEN data ELSE Append(data, SepTok)
             data2 == Append(data1, DocTok(doc))
             last_key2 == DumpsKey(doc, key_field)
             count2 == count + 1
         IN  IF GetSizeOf(data) > limit /\ ~is_first
             THEN [data |-> Append(data2, CloseTok), last_key |-> last_key2,
                   count |-> count2, pos |-> pos + 1, finished |-> FALSE]
             ELSE GenLoop_SplitsLate(matched, pos + 1, data2, FALSE, last_key2, count2,
                                     key_field)

RECURSIVE GenLoop(_, _, _, _, _, _, _)
GenLoop(matched, pos, data, is_first, last_key, count, key_field) ==
    IF pos > Len(matched)
    THEN [data |-> Append(data, CloseTok), last_key |-> last_key, count |-> count,
          pos |-> pos, finished |-> TRUE]
    ELSE LET doc == matched[pos]
             data1 == IF is_first THEN data ELSE Append(data, SepTok)
             data2 == Append(data1, DocTok(doc))
             last_key2 == DumpsKey(doc, key_field)
             count2 == count + 1
         IN  IF GetSizeOf(data2) > limit
             THEN [data |-> Append(data2, CloseTok), last_key |-> last_key2,
                   count |-> count2, pos |-> pos + 1, finished |-> FALSE]
             ELSE GenLoop(matched, pos + 1, data2, FALSE, last_key2, count2, key_field)

\* GenNext resuming one document too far after a yield
GenNext_SkipsOne(frame) ==
    GenLoop(frame.matched, IF frame.pos > 1 THEN frame.pos + 1 ELSE frame.pos,
            <<OpenTok>>, TRUE, None, frame.count, frame.key_field)

GenNext(frame) ==
    GenLoop(frame.matched, frame.pos, <<OpenTok>>, TRUE, None, frame.count, frame.key_field)

\* -------------------------------------------------------- backup_collection
\* The part of backup_collection before its loop: the frame it enters the
\* loop with, or the exception it raises.  get_ok tells whether get_object
\* answers; when it raises, for a missing key or for any other reason, the
\* except clause of line 133 takes over.  ckpt_at_start records what the
\* checkpoint blob held when the call began (None when there was none).
EnterBackupCollection(collection_name, backup_type, backup_id, key_field, get_ok) ==
    LET base == [active |-> TRUE, raised |-> "none", name |-> collection_name,
                 backup_type |-> backup_type, key_field |-> key_field,
                 folder |-> <<>>, file_prefix |-> <<>>, file_key |-> <<>>,
                 query |-> EmptyQuery, last_saved_key |-> None,
                 file_count |-> 0, matched |-> <<>>, pos |-> 1, count |-> 0,
                 finished |-> FALSE, data |-> <<>>, last_key |-> None,
                 ckpt_at_start |-> None]
    IN  IF backup_type = FULL_BACKUP
        THEN [base EXCEPT !.folder = backup_id,
                          !.file_prefix = collection_name \o <<"-">>,
                          !.file_key = get_s3_file_key(collection_name, backup_id),
                          !.matched = Find(collection_name, EmptyQuery, key_field)]
        ELSE IF backup_type = INCREMENTAL_BACKUP
        THEN LET ckey == CheckpointKey(collection_name, <<>>)
                 found == get_ok /\ HasKey(s3, ckey)
                 loaded == IF found THEN Loads(s3[ckey]) ELSE [ok |-> FALSE]
                 query == IF found /\ loaded.ok THEN GtQuery(loaded) ELSE EmptyQuery
             IN  [base EXCEPT !.folder = collection_name,
                              !.file_prefix = <<>>,
                              !.last_saved_key = IF found /\ loaded.ok THEN s3[ckey] ELSE None,
                              !.query = query,
                              !.ckpt_at_start = IF HasKey(s3, ckey) THEN s3[ckey] ELSE None,
                              !.file_key = get_s3_file_key(
                                   collection_name \o <<"-">> \o backup_id, collection_name),
                              !.matched = Find(collection_name, query, key_field)]
        ELSE [base EXCEPT !.active = FALSE, !.raised = "ValueError"]

\* SavesCheckpoint without the test for None
SavesCheckpoint_NoneSaved(last_key) == last_key \notin {<<>>, <<"N","o","n","e">>}

\* the condition under which the checkpoint is saved after a chunk
SavesCheckpoint(last_key) == last_key \notin {<<>>, None, <<"N","o","n","e">>}

\* ------------------------------------------------------------------ backup
\* the mode of a configuration value and the key field it names
BackupType(backup_conf) == Lower(Strip(Split(Strip(backup_conf))[1]))

KeyFieldOf(backup_conf) ==
    LET backup_conf_tokens == Split(Strip(backup_conf))
    IN  IF Len(backup_conf_tokens) = 1 THEN MONGO_DB_ID_FIELD
        ELSE Strip(backup_conf_tokens[2])

\* Dispatch with a final else branch that falls into the full backup
Dispatch_ElseFull(backup_conf) ==
    IF BackupType(backup_conf) \in {<<"i">>, INCREMENTAL_BACKUP} THEN "incremental"
    ELSE "full"

\* the call backup() makes for a configuration value: "full", "incremental" or "skip"
Dispatch(backup_conf) ==
    IF BackupType(backup_conf) \in {<<"f">>, FULL_BACKUP} THEN "full"
    ELSE IF BackupType(backup_conf) \in {<<"i">>, INCREMENTAL_BACKUP} THEN "incremental"
    ELSE "skip"

\* ----------------------------------------------------------------- actions
\* db_backup.py, lines 22-27: the configuration is read and checked; a
\* coverage gap is logged as a warning and backup(conf) is entered.
MainCheck ==
    /\ pc = "main"
    /\ status' = IF CheckRaises(conf) THEN "WARNING" ELSE status
    /\ missing' = IF CheckRaises(conf) THEN MissingCollections(conf) ELSE None
    /\ pc' = "backup"
    /\ ci' = 1
    /\ UNCHANGED <<db, conf, limit, s3, puts, run, exc, bc, returns>>
    /\ UNCHANGED <<restores, pc2, bc2>>

\* db_backup.py, lines 22-24 and 29-31: get_conf or list_collection_names
\* raises something other than NotImplementedError (malformed JSON, no
\* connection); backup(conf) is not reached.
MainFails ==
    /\ pc = "main"
    /\ status' = "ERROR"
    /\ exc' = "Exception"
    /\ pc' = "done"
    /\ UNCHANGED <<db, conf, limit, s3, puts, run, missing, ci, bc, returns>>
    /\ UNCHANGED <<restores, pc2, bc2>>

\* backup(), one iteration of its loop up to the entry of backup_collection's
\* loop; a value that names no mode is passed over.
BackupDispatch ==
    /\ pc = "backup"
    /\ ci <= Len(conf)
    /\ \E get_ok \in BOOLEAN :
       LET name == conf[ci][1]
           backup_conf == conf[ci][2]
           d == Dispatch(backup_conf)
           frame == IF d = "full"
                    THEN EnterBackupCollection(name, FULL_BACKUP, BackupId(run),
                                               MONGO_DB_ID_FIELD, get_ok)
                    ELSE EnterBackupCollection(name, INCREMENTAL_BACKUP, BackupId(run),
                                               KeyFieldOf(backup_conf), get_ok)
       IN  IF d = "skip"
           THEN /\ ci' = ci + 1
                /\ UNCHANGED <<pc, bc, status, exc>>
           ELSE IF frame.raised # "none"
           THEN /\ status' = "ERROR"
                /\ exc' = frame.raised
                /\ pc' = "done"
                /\ UNCHANGED <<ci, bc>>
           ELSE /\ bc' = frame
                /\ pc' = "chunk"
                /\ UNCHANGED <<ci, status, exc>>
    /\ UNCHANGED <<db, conf, limit, s3, puts, run, missing, returns>>
    /\ UNCHANGED <<restores, pc2, bc2>>

\* backup() returns after the last pair; db_backup.py ends with its status.
BackupReturns ==
    /\ pc = "backup"
    /\ ci > Len(conf)
    /\ pc' = "done"
    /\ UNCHANGED <<db, conf, limit, s3, puts, run, status, missing, exc, ci, bc, returns>>
    /\ UNCHANGED <<restores, pc2, bc2>>

\* WriteChunk with the two calls of the loop body exchanged: the checkpoint
\* is saved before the chunk is put.
WriteChunk_SaveFirst ==
    /\ pc = "chunk"
    /\ ~bc.finished
    /\ LET y == GenNext(bc)
           frame == [bc EXCEPT !.file_count = bc.file_count + 1,
                               !.data = y.data, !.last_key = y.last_key,
                               !.count = y.count, !.pos = y.pos,
                               !.finished = y.finished]
           key == frame.file_key \o Pad6(frame.file_count)
           ckey == CheckpointKey(frame.folder, frame.file_prefix)
           saved == IF SavesCheckpoint(frame.last_key)
                    THEN put_s3_data(s3, ckey, frame.last_key) ELSE s3
           log == IF SavesCheckpoint(frame.last_key)
                  THEN Append(puts, PutRec("checkpoint", ckey, frame.last_key, frame))
                  ELSE puts
       IN  /\ bc' = frame
           /\ s3' = put_s3_data(saved, key, frame.data)
           /\ puts' = Append(log, PutRec("chunk", key, frame.data, frame))
    /\ pc' = "save"
    /\ UNCHANGED <<db, conf, limit, run, status, missing, exc, ci, returns>>
    /\ UNCHANGED <<restores, pc2, bc2>>

\* backup_collection, lines 140-142: the generator yields its next chunk,
\* which is put at the numbered file key.
WriteChunk ==
    /\ pc = "chunk"
    /\ ~bc.finished
    /\ LET y == GenNext(bc)
           frame == [bc EXCEPT !.file_count = bc.file_count + 1,
                               !.data = y.data, !.last_key = y.last_key,
                               !.count = y.count, !.pos = y.pos,
                               !.finished = y.finished]
           key == frame.file_key \o Pad6(frame.file_count)
       IN  /\ bc' = frame
           /\ s3' = put_s3_data(s3, key, frame.data)
           /\ puts' = Append(puts, PutRec("chunk", key, frame.data, frame))
    /\ pc' = "save"
    /\ UNCHANGED <<db, conf, limit, run, status, missing, exc, ci, returns>>
    /\ UNCHANGED <<restores, pc2, bc2>>

\* SaveCheckpoint writing the collection's own checkpoint file whatever the
\* mode
SaveCheckpoint_CollectionFolder ==
    /\ pc = "save"
    /\ IF SavesCheckpoint(bc.last_key)
       THEN LET key == CheckpointKey(bc.name, <<>>)
            IN  /\ s3' = put_s3_data(s3, key, bc.last_key)
                /\ puts' = Append(puts, PutRec("checkpoint", key, bc.last_key, bc))
       ELSE UNCHANGED <<s3, puts>>
    /\ pc' = "chunk"
    /\ UNCHANGED <<db, conf, limit, run, status, missing, exc, ci, bc, returns>>
    /\ UNCHANGED <<restores, pc2, bc2>>

\* backup_collection, lines 143-144: save_last_id, unless last_key is one of
\* '', None, 'None'.
SaveCheckpoint ==
    /\ pc = "save"
    /\ IF SavesCheckpoint(bc.last_key)
       THEN LET key == CheckpointKey(bc.folder, bc.file_prefix)
            IN  /\ s3' = put_s3_data(s3, key, bc.last_key)
                /\ puts' = Append(puts, PutRec("checkpoint", key, bc.last_key, bc))
       ELSE UNCHANGED <<s3, puts>>
    /\ pc' = "chunk"
    /\ UNCHANGED <<db, conf, limit, run, status, missing, exc, ci, bc, returns>>
    /\ UNCHANGED <<restores, pc2, bc2>>

\* backup_collection, lines 150-151: the generator is exhausted, file_count
\* is returned and backup() goes on to the next pair.
CollectionReturns ==
    /\ pc = "chunk"
    /\ bc.finished
    /\ returns' = Append(returns, [run |-> run, ci |-> ci, name |-> bc.name,
                                   backup_type |-> bc.backup_type,
                                   key_field |-> bc.key_field,
                                   last_saved_key |-> bc.last_saved_key,
                                   matched |-> bc.matched,
                                   ckpt_at_start |-> bc.ckpt_at_start,
                                   file_key |-> bc.file_key,
                                   result |-> bc.file_count])
    /\ bc' = NoFrame
    /\ ci' = ci + 1
    /\ pc' = "backup"
    /\ UNCHANGED <<db, conf, limit, s3, puts, run, status, missing, exc>>
    /\ UNCHANGED <<restores, pc2, bc2>>

\* IOFails with an except clause that keeps a warning already set
IOFails_KeepsWarning ==
    /\ \/ pc = "chunk" /\ ~bc.finished
       \/ pc = "save" /\ SavesCheckpoint(bc.last_key)
    /\ status' = IF status = "WARNING" THEN status ELSE "ERROR"
    /\ exc' = "Exception"
    /\ pc' = "done"
    /\ UNCHANGED <<db, conf, limit, s3, puts, run, missing, ci, bc, returns>>
    /\ UNCHANGED <<restores, pc2, bc2>>

\* IOFails caught inside backup()'s loop, which goes on to the next pair
IOFails_Continues ==
    /\ \/ pc = "chunk" /\ ~bc.finished
       \/ pc = "save" /\ SavesCheckpoint(bc.last_key)
    /\ status' = "ERROR"
    /\ exc' = "Exception"
    /\ pc' = "backup"
    /\ ci' = ci + 1
    /\ bc' = NoFrame
    /\ UNCHANGED <<db, conf, limit, s3, puts, run, missing, returns>>
    /\ UNCHANGED <<restores, pc2, bc2>>

\* A read of the cursor or a put_object raises: nothing catches it below
\* db_backup.py's except clause.
IOFails ==
    /\ \/ pc = "chunk" /\ ~bc.finished
       \/ pc = "save" /\ SavesCheckpoint(bc.last_key)
    /\ status' = "ERROR"
    /\ exc' = "Exception"
    /\ pc' = "done"
    /\ UNCHANGED <<db, conf, limit, s3, puts, run, missing, ci, bc, returns>>
    /\ UNCHANGED <<restores, pc2, bc2>>

\* The process is killed.
Crash ==
    /\ pc \in {"backup", "chunk", "save"}
    /\ pc' = "crashed"
    /\ UNCHANGED <<db, conf, limit, s3, puts, run, status, missing, exc, ci, bc, returns>>
    /\ UNCHANGED <<restores, pc2, bc2>>

\* db_backup.py is started again (the scheduler's next run).
NewRun ==
    /\ pc \in {"done", "crashed"}
    /\ run < MaxRuns
    /\ run' = run + 1
    /\ pc' = "main"
    /\ status' = "OK"
    /\ missing' = None
    /\ exc' = "none"
    /\ ci' = 0
    /\ bc' = NoFrame
    /\ UNCHANGED <<db, conf, limit, s3, puts, returns>>
    /\ UNCHANGED <<restores, pc2, bc2>>

Next ==
    \/ MainCheck
    \/ MainFails
    \/ BackupDispatch
    \/ BackupReturns
    \/ WriteChunk
    \/ SaveCheckpoint
    \/ CollectionReturns
    \/ IOFails
    \/ Crash
    \/ NewRun

Spec == Init /\ [][Next]_vars

\* The same program run with a tiny limit as well, on one collection.
TinyConfs == { << <<USERS, FULL_BACKUP>> >>, << <<USERS, <<"i">> >> >> }

InitTiny ==
    /\ db \in DBs
    /\ conf \in TinyConfs
    /\ limit \in Limits \cup TinyLimits
    /\ s3 = <<>>
    /\ puts = <<>>
    /\ run = 1
    /\ pc = "main"
    /\ status = "OK"
    /\ missing = None
    /\ exc = "none"
    /\ ci = 0
    /\ bc = NoFrame
    /\ returns = <<>>
    /\ restores = <<>>
    /\ pc2 = "idle"
    /\ bc2 = NoFrame

SpecTiny == InitTiny /\ [][Next]_vars

\* The same program started on a bucket in which an earlier configuration
\* has left an incremental checkpoint of users.
SeededConfs ==
    { << <<USERS, FULL_BACKUP>> >>,
      << <<USERS, <<"I"," ","-"," ","t","s">> >>, <<SESSIONS, <<" ","F"," ">> >> >> }

InitSeeded ==
    /\ db \in DBs
    /\ conf \in SeededConfs
    /\ limit \in Limits
    /\ s3 = (CheckpointKey(USERS, <<>>) :> Digits(1))
    /\ puts = <<>>
    /\ run = 1
    /\ pc = "main"
    /\ status = "OK"
    /\ missing = None
    /\ exc = "none"
    /\ ci = 0
    /\ bc = NoFrame
    /\ returns = <<>>
    /\ restores = <<>>
    /\ pc2 = "idle"
    /\ bc2 = NoFrame

SpecSeeded == InitSeeded /\ [][Next]_vars

\* ------------------------------------------------------ restore_collection
MaxRestores == 2

\* f'{collection_name}_restored'
RestoredName(collection_name) ==
    collection_name \o <<"_","r","e","s","t","o","r","e","d">>

\* f'{folder}/{collection_name}.bak'
RestoreKey(collection_name, folder) ==
    folder \o <<"/">> \o collection_name \o <<".","b","a","k">>

\* documents that carry no _id
DocN == (TS :> 5)
DocM == (TS :> 6)

\* the text of a document array
RECURSIVE ArrayItems(_)
ArrayItems(docs) ==
    IF docs = <<>> THEN <<>>
    ELSE IF Len(docs) = 1 THEN <<DocTok(docs[1])>>
    ELSE <<DocTok(Head(docs)), SepTok>> \o ArrayItems(Tail(docs))
ArrayText(docs) == <<OpenTok>> \o ArrayItems(docs) \o <<CloseTok>>

\* the _id the driver gives a document that has none: unlike every _id in use
FreshId(target) == 100 + Len(target)

\* insert_one that passes over a document whose content the target already
\* holds
insert_one_Dedup(target, doc) ==
    LET content(d) == [f \in DOMAIN d \ {MONGO_DB_ID_FIELD} |-> d[f]]
    IN  IF \E i \in 1..Len(target) : content(target[i]) = content(doc)
        THEN [raised |-> FALSE, target |-> target]
        ELSE IF MONGO_DB_ID_FIELD \in DOMAIN doc
        THEN [raised |-> FALSE, target |-> Append(target, doc)]
        ELSE [raised |-> FALSE,
              target |-> Append(target, (MONGO_DB_ID_FIELD :> FreshId(target)) @@ doc)]

\* collection.insert_one(document=doc): _id is unique in a collection, so a
\* document whose _id the target already holds raises DuplicateKeyError; a
\* document without _id is given a fresh one
insert_one(target, doc) ==
    IF MONGO_DB_ID_FIELD \in DOMAIN doc
    THEN IF \E i \in 1..Len(target) : target[i][MONGO_DB_ID_FIELD] = doc[MONGO_DB_ID_FIELD]
         THEN [raised |-> TRUE, target |-> target]
         ELSE [raised |-> FALSE, target |-> Append(target, doc)]
    ELSE [raised |-> FALSE,
          target |-> Append(target, (MONGO_DB_ID_FIELD :> FreshId(target)) @@ doc)]

\* restore_collection's loop, lines 186-188: the documents are inserted one
\* at a time until insert_one raises
RECURSIVE InsertAll(_, _, _)
InsertAll(documents, target, count) ==
    IF documents = <<>>
    THEN [target |-> target, count |-> count, raised |-> "none"]
    ELSE LET r == insert_one(target, Head(documents))
         IN  IF r.raised
             THEN [target |-> target, count |-> count, raised |-> "DuplicateKeyError"]
             ELSE InsertAll(Tail(documents), r.target, count + 1)

Folder2024 == <<"2","0","2","4">>

\* the documents of collection_name's restore target
Target(collection_name) ==
    IF RestoredName(collection_name) \in DOMAIN db
    THEN db[RestoredName(collection_name)] ELSE <<>>

\* restore_collection(collection_name, folder), called by an operator after
\* a run of db_backup.py has ended: get_object raises when the key is not in
\* the bucket, else the blob's documents are inserted.
Restore ==
    /\ pc = "done"
    /\ Len(restores) < MaxRestores
    /\ \E collection_name \in {USERS},
          folder \in {Folder2024} \cup {BackupId(r) : r \in 1..run} :
       LET key == RestoreKey(collection_name, folder)
           found == HasKey(s3, key)
           documents == IF found THEN DocsOf(s3[key]) ELSE <<>>
           before == Target(collection_name)
           r == InsertAll(documents, before, 0)
           rec == [name |-> collection_name, folder |-> folder, found |-> found,
                   documents |-> documents,
                   raised |-> IF found THEN r.raised ELSE "NoSuchKey",
                   count |-> r.count, before |-> before, after |-> r.target,
                   nret |-> Len(returns)]
       IN  /\ restores' = Append(restores, rec)
           /\ db' = IF r.target = before THEN db
                    ELSE (RestoredName(collection_name) :> r.target) @@ db
    /\ UNCHANGED <<conf, limit, s3, puts, run, pc, status, missing, exc, ci, bc, returns>>
    /\ UNCHANGED <<pc2, bc2>>

\* blobs an operator has put under 2024/users.bak
RestoreBlobs ==
    {<<>>, <<DocN>>, <<DocN, DocM>>, <<DocA, DocB>>, <<DocN, DocA>>}

RestoreConfs == { << <<USERS, FULL_BACKUP>> >> }

\* the databases restore is exercised on
RestoreDBs == {d \in DBs : d[USERS] \in {<<>>, <<DocA>>, <<DocA, DocB>>}}

InitRestore ==
    /\ db \in RestoreDBs
    /\ conf \in RestoreConfs
    /\ limit \in Limits
    /\ \E docs \in RestoreBlobs :
          s3 = (RestoreKey(USERS, Folder2024) :> ArrayText(docs))
    /\ puts = <<>>
    /\ run = 1
    /\ pc = "main"
    /\ status = "OK"
    /\ missing = None
    /\ exc = "none"
    /\ ci = 0
    /\ bc = NoFrame
    /\ returns = <<>>
    /\ restores = <<>>
    /\ pc2 = "idle"
    /\ bc2 = NoFrame

NextRestore == Next \/ Restore

SpecRestore == InitRestore /\ [][NextRestore]_vars

\* --------------------------------------- a second process of db_backup.py
\* the run number that stands for the second process
SecondRun == 0

P2PutRec(what, file_key, data, frame) ==
    [PutRec(what, file_key, data, frame) EXCEPT !.run = SecondRun, !.ci = 1]

\* The second process, started while the first is exporting: it reaches
\* backup()'s pair of the collection and enters backup_collection, reading
\* the checkpoint the bucket holds at that moment.
P2Enter ==
    /\ pc2 = "idle"
    /\ bc.active
    /\ Len(conf) = 1
    /\ Dispatch(conf[1][2]) = "incremental"
    /\ \E get_ok \in BOOLEAN :
          bc2' = EnterBackupCollection(conf[1][1], INCREMENTAL_BACKUP,
                                       BackupId(SecondRun), KeyFieldOf(conf[1][2]), get_ok)
    /\ pc2' = "chunk"
    /\ UNCHANGED <<db, conf, limit, s3, puts, run, pc, status, missing, exc, ci, bc,
                   returns, restores>>

\* backup_collection, lines 140-142, in the second process
P2WriteChunk ==
    /\ pc2 = "chunk"
    /\ ~bc2.finished
    /\ LET y == GenNext(bc2)
           frame == [bc2 EXCEPT !.file_count = bc2.file_count + 1,
                                !.data = y.data, !.last_key = y.last_key,
                                !.count = y.count, !.pos = y.pos,
                                !.finished = y.finished]
           key == frame.file_key \o Pad6(frame.file_count)
       IN  /\ bc2' = frame
           /\ s3' = put_s3_data(s3, key, frame.data)
           /\ puts' = Append(puts, P2PutRec("chunk", key, frame.data, frame))
    /\ pc2' = "save"
    /\ UNCHANGED <<db, conf, limit, run, pc, status, missing, exc, ci, bc, returns, restores>>

\* backup_collection, lines 143-144, in the second process
P2SaveCheckpoint ==
    /\ pc2 = "save"
    /\ IF SavesCheckpoint(bc2.last_key)
       THEN LET key == CheckpointKey(bc2.folder, bc2.file_prefix)
            IN  /\ s3' = put_s3_data(s3, key, bc2.last_key)
                /\ puts' = Append(puts, P2PutRec("checkpoint", key, bc2.last_key, bc2))
       ELSE UNCHANGED <<s3, puts>>
    /\ pc2' = "chunk"
    /\ UNCHANGED <<db, conf, limit, run, pc, status, missing, exc, ci, bc, bc2, returns,
                   restores>>

\* the second process's backup_collection returns and the process ends
P2Returns ==
    /\ pc2 = "chunk"
    /\ bc2.finished
    /\ pc2' = "done"
    /\ bc2' = NoFrame
    /\ UNCHANGED <<db, conf, limit, s3, puts, run, pc, status, missing, exc, ci, bc,
                   returns, restores>>

\* whether the documents come in ascending order of key_field
Ascending(docs, key_field) ==
    \A i \in 1..Len(docs) :
       /\ key_field \in DOMAIN docs[i]
       /\ \A j \in 1..Len(docs) : i < j => docs[i][key_field] < docs[j][key_field]

\* users is read in ascending order of _id
ConcDBs ==
    {d \in DBs : Ascending(d[USERS], MONGO_DB_ID_FIELD) /\ Len(d[USERS]) = 2}

\* every document makes a chunk of its own
ConcLimits == TinyLimits

ConcConfs == { << <<USERS, <<"i">> >> >> }

InitConc ==
    /\ db \in ConcDBs
    /\ conf \in ConcConfs
    /\ limit \in ConcLimits
    /\ s3 = <<>>
    /\ puts = <<>>
    /\ run = 1
    /\ pc = "main"
    /\ status = "OK"
    /\ missing = None
    /\ exc = "none"
    /\ ci = 0
    /\ bc = NoFrame
    /\ returns = <<>>
    /\ restores = <<>>
    /\ pc2 = "idle"
    /\ bc2 = NoFrame

\* the first process is started again once the second is not exporting:
\* no more than two exports of the collection are in flight
NewRunConc == pc2 \in {"idle", "done"} /\ NewRun

NextConc ==
    \/ MainCheck
    \/ BackupDispatch
    \/ BackupReturns
    \/ WriteChunk
    \/ SaveCheckpoint
    \/ CollectionReturns
    \/ NewRunConc
    \/ P2Enter
    \/ P2WriteChunk
    \/ P2SaveCheckpoint
    \/ P2Returns

SpecConc == InitConc /\ [][NextConc]_vars

\* ------------------------------------------------------------- properties
Last(q) == q[Len(q)]

\* the put_object calls that wrote a chunk, resp. a checkpoint
ChunkPuts == {i \in 1..Len(puts) : puts[i].what = "chunk"}
CheckpointPuts == {i \in 1..Len(puts) : puts[i].what = "checkpoint"}

\* the two calls belong to the same chunk of the same backup_collection call
SameChunk(i, j) ==
    /\ puts[i].run = puts[j].run
    /\ puts[i].name = puts[j].name
    /\ puts[i].seq = puts[j].seq

\* C1: every checkpoint that was saved holds the key of the last document of
\* a chunk that was put before it, by the same run, and that the object
\* store holds at its file key.
C1_ChunkBeforeCheckpoint ==
    \A i \in CheckpointPuts :
        \E j \in ChunkPuts :
            /\ j < i
            /\ SameChunk(i, j)
            /\ HasKey(s3, puts[j].key)
            /\ s3[puts[j].key] = puts[j].body
            /\ DocsOf(puts[j].body) # <<>>
            /\ DumpsKey(Last(DocsOf(puts[j].body)), puts[i].key_field) = puts[i].body

\* C1 witness: a checkpoint has just been saved after its chunk
C1_Witness ==
    /\ pc = "chunk"
    /\ bc.active
    /\ puts # <<>>
    /\ Last(puts).what = "checkpoint"
    /\ Last(puts).run = run

\* the text is the six-digit, zero-padded decimal numeral of k
IsSixDigitsOf(text, k) == Len(text) = 6 /\ IsDecimal(text) /\ DigitsValue(text, 0) = k

\* the keys of the chunks put by run r for collection name, in the order of
\* the calls
ChunkKeysOf(r, name) ==
    LET mine == SelectSeq(puts, LAMBDA p : p.what = "chunk" /\ p.run = r /\ p.name = name)
    IN  [k \in 1..Len(mine) |-> mine[k].key]

\* keys is prefix followed by the six-digit numerals of 1, 2, ..., n
NumberedFrom1(keys, prefix, n) ==
    /\ Len(keys) = n
    /\ \A k \in 1..n :
          /\ Len(keys[k]) = Len(prefix) + 6
          /\ SubSeq(keys[k], 1, Len(prefix)) = prefix
          /\ IsSixDigitsOf(SubSeq(keys[k], Len(prefix) + 1, Len(keys[k])), k)

\* C7: the chunk keys written by one backup_collection call are its file key
\* followed by the six-digit zero-padded numbers 1, 2, ..., n, in that order
\* without gap or repeat, where n is the number of chunks written so far,
\* and the call returns n.
C7_SequentialChunkKeys ==
    /\ \A i \in 1..Len(returns) :
          /\ returns[i].result >= 1
          /\ NumberedFrom1(ChunkKeysOf(returns[i].run, returns[i].name),
                           returns[i].file_key, returns[i].result)
    /\ (bc.active /\ pc \in {"chunk", "save"}) =>
          NumberedFrom1(ChunkKeysOf(run, bc.name), bc.file_key, bc.file_count)

\* C7 witness: a call returned after writing more than one chunk
C7_Witness ==
    \E i \in 1..Len(returns) :
        /\ returns[i].result >= 2
        /\ Len(ChunkKeysOf(returns[i].run, returns[i].name)) = returns[i].result

\* the live collections that are not keys of the configuration
Uncovered == DOMAIN db \ {conf[i][1] : i \in 1..Len(conf)}

\* C9: once the coverage check of a run has been made, it has failed if and
\* only if some live collection is not a key of the configuration, and the
\* list in its message holds exactly those collections, each once.
C9_CoverageCheck ==
    ci >= 1 =>
        /\ (missing # None) <=> (Uncovered # {})
        /\ missing # None =>
              /\ Range(missing) = Uncovered
              /\ Len(missing) = Cardinality(Uncovered)

\* C9 witness: the check has failed, naming a collection
C9_Witness ==
    /\ ci >= 1
    /\ missing # None
    /\ LOGS \in Range(missing)

\* C10: when a run has ended, the status is ERROR if an exception escaped (a
\* coverage gap or not), else WARNING if there is a coverage gap, else OK;
\* and a run in which no exception escaped went through the whole
\* configuration, coverage gap or not.
C10_FinalStatus ==
    pc = "done" =>
        /\ status = (IF exc # "none" THEN "ERROR"
                     ELSE IF Uncovered # {} THEN "WARNING" ELSE "OK")
        /\ exc = "none" => ci = Len(conf) + 1

\* C10 witness: a run with a coverage gap went on to write a chunk and then
\* ended with an exception
C10_Witness ==
    /\ pc = "done"
    /\ missing # None
    /\ exc # "none"
    /\ \E i \in ChunkPuts : puts[i].run = run

\* the first part of the mode token, trimmed and in lower case, is none of
\* full, f, incremental, i
Unsupported(backup_conf) ==
    BackupType(backup_conf) \notin {FULL_BACKUP, <<"f">>, INCREMENTAL_BACKUP, <<"i">>}

\* the positions of the configuration the current run has gone past
Passed == {i \in 1..Len(conf) : pc \in {"backup", "chunk", "save", "done"} /\ i < ci}

\* C6 (as claimed): a collection whose mode token is not supported makes the
\* run fail with the unsupported-backup-type error, so that the run never
\* goes past it.
C6_UnsupportedAborts ==
    \A i \in 1..Len(conf) :
        (Unsupported(conf[i][2]) /\ i \in Passed) => exc = "ValueError"

\* C6 (amended): a collection whose mode token is not supported is passed
\* over: no run writes anything for it, no call of backup_collection is made
\* for it, the unsupported-backup-type error is never raised, and a run in
\* which no exception escaped has backed up every collection whose token is
\* supported.
C6_UnsupportedSkipped ==
    /\ exc # "ValueError"
    /\ \A i \in 1..Len(conf) :
          Unsupported(conf[i][2]) =>
              /\ \A j \in 1..Len(puts) : puts[j].name # conf[i][1]
              /\ \A j \in 1..Len(returns) : returns[j].name # conf[i][1]
              /\ ~(bc.active /\ bc.name = conf[i][1])
    /\ (pc = "done" /\ exc = "none") =>
          \A i \in 1..Len(conf) :
              ~Unsupported(conf[i][2]) =>
                  \E j \in 1..Len(returns) :
                      returns[j].run = run /\ returns[j].name = conf[i][1]

\* C6 witness: the run went past a collection with an unsupported token and
\* backed up a later collection
C6_Witness ==
    \E i \in Passed :
        /\ Unsupported(conf[i][2])
        /\ \E j \in 1..Len(returns) : returns[j].run = run /\ returns[j].ci > i

LastKeyTxt == <<"l","a","s","t","_","k","e","y",".","t","x","t">>
Slash == <<"/">>

\* the key <runID>/<collectionName>.bak<seq> of a chunk of a full backup
FullChunkKeyOK(p) ==
    \E sfx \in {SubSeq(p.key, Len(p.key) - 5, Len(p.key))} :
        /\ IsSixDigitsOf(sfx, p.seq)
        /\ p.key = BackupId(p.run) \o Slash \o p.name \o <<".","b","a","k">> \o sfx

\* C8 (as claimed): a full backup writes its chunks under
\* <runID>/<collectionName>.bak<seq> and its checkpoint at
\* <collectionName>/<collectionName>-last_key.txt; an incremental backup
\* writes its checkpoint at <collectionName>/last_key.txt.
C8_KeysAsClaimed ==
    \A i \in 1..Len(puts) :
        LET p == puts[i]
        IN  /\ (p.backup_type = FULL_BACKUP /\ p.what = "chunk") => FullChunkKeyOK(p)
            /\ (p.backup_type = FULL_BACKUP /\ p.what = "checkpoint") =>
                  p.key = p.name \o Slash \o p.name \o <<"-">> \o LastKeyTxt
            /\ (p.backup_type = INCREMENTAL_BACKUP /\ p.what = "checkpoint") =>
                  p.key = p.name \o Slash \o LastKeyTxt

\* C8 (amended): a full backup writes its chunks under
\* <runID>/<collectionName>.bak<seq> and its checkpoint at
\* <runID>/<collectionName>-last_key.txt, in the folder of the run; an
\* incremental backup writes its checkpoint at <collectionName>/last_key.txt.
C8_KeysInRunFolder ==
    \A i \in 1..Len(puts) :
        LET p == puts[i]
        IN  /\ (p.backup_type = FULL_BACKUP /\ p.what = "chunk") => FullChunkKeyOK(p)
            /\ (p.backup_type = FULL_BACKUP /\ p.what = "checkpoint") =>
                  p.key = BackupId(p.run) \o Slash \o p.name \o <<"-">> \o LastKeyTxt
            /\ (p.backup_type = INCREMENTAL_BACKUP /\ p.what = "checkpoint") =>
                  p.key = p.name \o Slash \o LastKeyTxt

\* C8 witness: one run saved a checkpoint of a full backup and a checkpoint
\* of an incremental backup
C8_Witness ==
    \E i, j \in CheckpointPuts :
        /\ puts[i].run = puts[j].run
        /\ puts[i].backup_type = FULL_BACKUP
        /\ puts[j].backup_type = INCREMENTAL_BACKUP

\* the documents held by the chunks that were put for a collection
WrittenDocs(name) ==
    UNION {Range(DocsOf(puts[i].body)) : i \in {j \in ChunkPuts : puts[j].name = name}}

\* the document is one an incremental run that reads the stored checkpoint
\* text would export
GreaterThanCheckpoint(doc, key_field, text) ==
    /\ Loads(text).ok
    /\ ~Loads(text).null
    /\ key_field \in DOMAIN doc
    /\ doc[key_field] > Loads(text).val

IncrementalCheckpointKey(name) == name \o Slash \o LastKeyTxt

\* C2 (as claimed): when an incremental backup of a collection has been
\* interrupted by a crash, every document that matched its query and is in
\* no chunk written to the object store is one the next incremental run
\* exports: either no checkpoint is stored, or the document's key field is
\* greater than the stored checkpoint.
C2_NoLossOnCrash ==
    (pc = "crashed" /\ bc.active /\ bc.backup_type = INCREMENTAL_BACKUP) =>
        \A d \in Range(bc.matched) \ WrittenDocs(bc.name) :
            HasKey(s3, IncrementalCheckpointKey(bc.name)) =>
                GreaterThanCheckpoint(d, bc.key_field, s3[IncrementalCheckpointKey(bc.name)])

Max(S) == CHOOSE x \in S : \A y \in S : y <= x

\* the key-field values of the documents of a sequence
KeysOf(docs, key_field) == {d[key_field] : d \in {e \in Range(docs) : key_field \in DOMAIN e}}

\* the backup_collection call that has just returned, if any
JustReturned ==
    /\ pc = "backup"
    /\ returns # <<>>
    /\ Last(returns).run = run
    /\ Last(returns).ci = ci - 1

\* C3 (as claimed): when an incremental backup of a collection has returned
\* after exporting documents that have the key field, the stored checkpoint
\* is the greatest key-field value among the exported documents.
C3_CheckpointIsMax ==
    (JustReturned /\ Last(returns).backup_type = INCREMENTAL_BACKUP) =>
        LET r == Last(returns)
            keys == KeysOf(r.matched, r.key_field)
            ckey == IncrementalCheckpointKey(r.name)
        IN  keys # {} =>
                /\ HasKey(s3, ckey)
                /\ Loads(s3[ckey]).ok
                /\ ~Loads(s3[ckey]).null
                /\ Loads(s3[ckey]).val = Max(keys)

\* the incremental backup_collection call of an earlier run for the same
\* collection returned
ReturnedBefore(r) ==
    \E i \in 1..Len(returns) :
        /\ returns[i].run = r.run - 1
        /\ returns[i].name = r.name
        /\ returns[i].backup_type = INCREMENTAL_BACKUP

\* C4 (as claimed): an incremental backup that follows a completed
\* incremental backup of the same collection in the previous run (the
\* collection does not change in between) exports no document, writes
\* exactly one chunk, the empty array, and saves no checkpoint.
C4_RerunExportsNothing ==
    (JustReturned /\ Last(returns).backup_type = INCREMENTAL_BACKUP
                  /\ ReturnedBefore(Last(returns))) =>
        LET r == Last(returns)
        IN  /\ r.matched = <<>>
            /\ r.result = 1
            /\ \A i \in ChunkPuts :
                  (puts[i].run = r.run /\ puts[i].name = r.name) =>
                      puts[i].body = <<OpenTok, CloseTok>>
            /\ \A i \in CheckpointPuts : ~(puts[i].run = r.run /\ puts[i].name = r.name)

\* C5 (as claimed): no checkpoint is saved for a chunk that is empty or whose
\* last document has no value for the key field.
C5_NoDegenerateCheckpoint ==
    \A i \in CheckpointPuts :
        \A j \in ChunkPuts :
            SameChunk(i, j) =>
                /\ DocsOf(puts[j].body) # <<>>
                /\ puts[i].key_field \in DOMAIN Last(DocsOf(puts[j].body))

\* the chunks put by run r for collection name, in the order of the calls
ChunksOf(r, name) ==
    SelectSeq(puts, LAMBDA p : p.what = "chunk" /\ p.run = r /\ p.name = name)

\* C13 (as claimed): the count yielded with a chunk is the number of
\* documents of that chunk (so that the counts of an export add up to the
\* number of matching documents, and a chunk without documents has count 0).
C13_CountPerChunk ==
    \A i \in ChunkPuts : puts[i].count = Len(DocsOf(puts[i].body))

\* a chunk body without its closing bracket: the accumulator at the moment
\* of the split decision
Unclosed(body) == SubSeq(body, 1, Len(body) - 1)

\* the accumulator before its last document (and the separator before it)
\* was appended
WithoutLastDoc(data) ==
    IF Len(data) >= 3 THEN SubSeq(data, 1, Len(data) - 2) ELSE SubSeq(data, 1, Len(data) - 1)

\* C14 (as claimed): every chunk but the last of an export is larger than
\* the limit when it is split off, and without its last document it would
\* be at most the limit.
C14_GreedySplit ==
    \A i \in ChunkPuts :
        ~puts[i].final =>
            /\ GetSizeOf(Unclosed(puts[i].body)) > limit
            /\ GetSizeOf(WithoutLastDoc(Unclosed(puts[i].body))) <= limit

\* C14 (amended): every chunk but the last of an export is larger than the
\* limit when it is split off, and without its last document it would be at
\* most the limit or hold no document at all; the last chunk is not
\* constrained and may be the empty array.
C14_GreedySplitOrSingle ==
    \A i \in ChunkPuts :
        ~puts[i].final =>
            /\ DocsOf(puts[i].body) # <<>>
            /\ GetSizeOf(Unclosed(puts[i].body)) > limit
            /\ \/ GetSizeOf(WithoutLastDoc(Unclosed(puts[i].body))) <= limit
               \/ WithoutLastDoc(Unclosed(puts[i].body)) = <<OpenTok>>

\* C14 witness: a chunk of two documents was split off, and the export ended
\* with the empty array
C14_Witness ==
    \E i, j \in ChunkPuts :
        /\ ~puts[i].final
        /\ Len(DocsOf(puts[i].body)) = 2
        /\ puts[j].final
        /\ puts[j].run = puts[i].run /\ puts[j].name = puts[i].name
        /\ puts[j].body = <<OpenTok, CloseTok>>

\* C15: a backup_collection call whose query matched no document wrote
\* exactly one chunk, the empty array, yielded with last key None and count
\* 0, returned 1 and saved no checkpoint.
C15_EmptyExport ==
    \A i \in 1..Len(returns) :
        returns[i].matched = <<>> =>
            LET chunks == ChunksOf(returns[i].run, returns[i].name)
            IN  /\ Len(chunks) = 1
                /\ returns[i].result = 1
                /\ chunks[1].body = <<OpenTok, CloseTok>>
                /\ chunks[1].last_key = None
                /\ chunks[1].count = 0
                /\ \A j \in CheckpointPuts :
                      ~(puts[j].run = returns[i].run /\ puts[j].name = returns[i].name)

\* C15 witness: an incremental backup found nothing above the checkpoint it
\* read and returned
C15_Witness ==
    \E i \in 1..Len(returns) :
        /\ returns[i].matched = <<>>
        /\ returns[i].last_saved_key # None
        /\ Len(ChunksOf(returns[i].run, returns[i].name)) = 1

\* the documents of a sequence of chunks, in order
RECURSIVE ConcatDocs(_)
ConcatDocs(chunks) ==
    IF chunks = <<>> THEN <<>>
    ELSE DocsOf(Head(chunks).body) \o ConcatDocs(Tail(chunks))

\* C18: the chunks of an export, in order, hold the documents the cursor has
\* returned so far, each once and in the cursor's order (all of them when
\* the call has returned), and the last key yielded with a chunk that holds
\* documents is the serialized key field of its last document.
C18_ChunksPartitionCursor ==
    /\ \A i \in 1..Len(returns) :
          ConcatDocs(ChunksOf(returns[i].run, returns[i].name)) = returns[i].matched
    /\ (bc.active /\ pc \in {"chunk", "save"}) =>
          /\ bc.pos <= Len(bc.matched) + 1
          /\ ConcatDocs(ChunksOf(run, bc.name)) = SubSeq(bc.matched, 1, bc.pos - 1)
    /\ \A i \in ChunkPuts :
          DocsOf(puts[i].body) # <<>> =>
              puts[i].last_key = DumpsKey(Last(DocsOf(puts[i].body)), puts[i].key_field)

\* C18 witness: an export of two documents in two chunks has returned
C18_Witness ==
    \E i \in 1..Len(returns) :
        /\ Len(returns[i].matched) = 2
        /\ \E c \in Range(ChunksOf(returns[i].run, returns[i].name)) :
              Len(DocsOf(c.body)) = 1

\* C16 (as claimed): an incremental backup that began when no checkpoint
\* blob existed runs the empty query and exports every document of the
\* collection, without an exception; one that began when the checkpoint
\* blob held K exports only documents whose key field is greater than K.
C16_StartsFromCheckpoint ==
    (pc \in {"chunk", "save"} /\ bc.active /\ bc.backup_type = INCREMENTAL_BACKUP) =>
        /\ exc = "none"
        /\ bc.ckpt_at_start = None =>
              /\ bc.query = EmptyQuery
              /\ bc.matched = (IF bc.name \in DOMAIN db THEN db[bc.name] ELSE <<>>)
        /\ bc.ckpt_at_start # None =>
              \A d \in Range(bc.matched) :
                  GreaterThanCheckpoint(d, bc.key_field, bc.ckpt_at_start)

\* C17: an exception that escaped has ended the run; the put_object calls of
\* a run follow the order of the configuration, a collection being written
\* only after the calls for the collections before it have returned and
\* never after the position at which the run stands or has ended; and every
\* chunk and checkpoint key that was written is still in the object store,
\* the chunks with the body that was put.
C17_FailureAbortsRun ==
    /\ exc # "none" => pc = "done"
    /\ \A i, j \in 1..Len(puts) :
          (i < j /\ puts[i].run = puts[j].run) => puts[i].ci <= puts[j].ci
    /\ \A i \in 1..Len(puts) :
          puts[i].run = run =>
              /\ puts[i].ci <= ci
              /\ puts[i].ci < ci =>
                    \E k \in 1..Len(returns) :
                        returns[k].run = run /\ returns[k].ci = puts[i].ci
    /\ \A i \in 1..Len(puts) : HasKey(s3, puts[i].key)
    /\ \A i \in ChunkPuts : s3[puts[i].key] = puts[i].body

\* C17 witness: a run failed in a collection after writing a chunk of it,
\* with a collection to back up still ahead in the configuration
C17_Witness ==
    /\ pc = "done"
    /\ exc # "none"
    /\ \E i \in ChunkPuts : puts[i].run = run /\ puts[i].ci = ci
    /\ \E j \in 1..Len(conf) : j > ci /\ ~Unsupported(conf[j][2])

HasPrefix(k, p) == Len(k) >= Len(p) /\ SubSeq(k, 1, Len(p)) = p
HasSuffix(k, p) == Len(k) >= Len(p) /\ SubSeq(k, Len(k) - Len(p) + 1, Len(k)) = p

\* the keys whose blob a step creates or changes
Changed == {k \in DOMAIN s3' : k \notin DOMAIN s3 \/ s3'[k] # s3[k]}

\* C20: a full backup does not read the checkpoint (its query is empty and
\* it exports the whole collection, whatever <collectionName>/last_key.txt
\* holds), and every blob it creates or changes is in the folder of the run;
\* an incremental backup of a collection creates or changes no blob but the
\* collection's own <collectionName>/last_key.txt and its chunk files
\* <collectionName>/<collectionName>-<runID>.bak<seq>.
C20_BackupFrame ==
    /\ [](bc.active /\ bc.backup_type = FULL_BACKUP =>
            /\ bc.query = EmptyQuery
            /\ bc.last_saved_key = None
            /\ bc.matched = (IF bc.name \in DOMAIN db THEN db[bc.name] ELSE <<>>))
    /\ [][\A k \in Changed :
            /\ bc'.active
            /\ IF bc'.backup_type = FULL_BACKUP
               THEN HasPrefix(k, BackupId(run) \o Slash)
               ELSE \/ k = bc'.name \o Slash \o LastKeyTxt
                    \/ /\ HasPrefix(k, bc'.name \o Slash \o bc'.name \o <<"-">>
                                        \o BackupId(run) \o <<".","b","a","k">>)
                       /\ ~HasSuffix(k, LastKeyTxt)]_vars

\* C20 witness: a full backup of users has saved its checkpoint while the
\* incremental checkpoint of users holds what it held before the run
C20_Witness ==
    /\ bc.active
    /\ bc.backup_type = FULL_BACKUP
    /\ bc.name = USERS
    /\ puts # <<>>
    /\ Last(puts).what = "checkpoint"
    /\ Last(puts).run = run
    /\ Last(puts).name = USERS
    /\ HasKey(s3, USERS \o Slash \o LastKeyTxt)
    /\ s3[USERS \o Slash \o LastKeyTxt] = Digits(1)


\* the restores of the blob at 2024/users.bak
BlobRestores ==
    {i \in 1..Len(restores) : restores[i].name = USERS /\ restores[i].folder = Folder2024}

\* C11: a restore_collection that returns has inserted every document of the
\* blob, in order, at the end of <name>_restored, and returns their number
\* n; nothing is deduplicated or replaced, so when every restore of the blob
\* so far has returned, k of them, the target holds k * n documents.
C11_RestoreInsertsAll ==
    /\ \A i \in 1..Len(restores) :
          LET r == restores[i]
          IN  r.raised = "none" =>
                /\ r.found
                /\ r.count = Len(r.documents)
                /\ Len(r.after) = Len(r.before) + Len(r.documents)
                /\ SubSeq(r.after, 1, Len(r.before)) = r.before
                /\ \A j \in 1..Len(r.documents) :
                      \A f \in DOMAIN r.documents[j] :
                         /\ f \in DOMAIN r.after[Len(r.before) + j]
                         /\ r.after[Len(r.before) + j][f] = r.documents[j][f]
    /\ (\A i \in BlobRestores : restores[i].raised = "none") =>
          Len(Target(USERS)) =
             Cardinality(BlobRestores) * Len(DocsOf(s3[RestoreKey(USERS, Folder2024)]))

\* C11 witness: the two-document blob has been restored twice, both calls
\* returned 2, and users_restored holds four documents
C11_Witness ==
    /\ Cardinality(BlobRestores) = 2
    /\ \A i \in BlobRestores : restores[i].raised = "none" /\ restores[i].count = 2
    /\ Len(Target(USERS)) = 4

\* C19: when a full backup of a collection has returned in run R, a later
\* restore_collection(collectionName, <folder of R>) finds the blob and
\* inserts the documents that backup exported.
C19_BackupRestoreRoundTrip ==
    \A i \in 1..Len(restores) :
       LET r == restores[i]
       IN  \A j \in 1..r.nret :
              ( /\ returns[j].backup_type = FULL_BACKUP
                /\ returns[j].name = r.name
                /\ r.folder = BackupId(returns[j].run) ) =>
                 /\ r.found
                 /\ r.raised = "none"
                 /\ r.documents = returns[j].matched


\* the process a put_object call was made by
Proc(p) == IF p.run = SecondRun THEN 2 ELSE 1

\* the checkpoint puts that lower the stored checkpoint: <<j, i>> when put i
\* overwrites the value of put j with a lower one
Regressions ==
    {q \in CheckpointPuts \X CheckpointPuts :
        /\ q[1] < q[2]
        /\ puts[q[1]].key = puts[q[2]].key
        /\ \A m \in CheckpointPuts : ~(q[1] < m /\ m < q[2] /\ puts[m].key = puts[q[1]].key)
        /\ IsDecimal(puts[q[1]].body) /\ IsDecimal(puts[q[2]].body)
        /\ DigitsValue(puts[q[2]].body, 0) < DigitsValue(puts[q[1]].body, 0)}

\* C12: with the collection read in ascending key order, the stored
\* checkpoint is lowered only by a race of two processes: every checkpoint
\* save that lowers it overwrites a checkpoint saved by the other process,
\* never one saved by an earlier or the same run of its own process.
C12_RegressionOnlyByRace ==
    \A q \in Regressions : Proc(puts[q[1]]) # Proc(puts[q[2]])

\* the race of C12: a process has lowered the checkpoint below the key of a
\* document the other process has exported and checkpointed
C12_RaceRegression ==
    \E q \in Regressions : Proc(puts[q[1]]) # Proc(puts[q[2]])

====
